---- MODULE Spec2Model ----
(***************************************************************************)
(* Prompt Match: the round lifecycle of src/app/page.tsx (Home component). *)
(* State is the component's React state, the timer ref, the intervals the  *)
(* browser has scheduled, and the calls of handleGenerate that are         *)
(* suspended at an await (pipelines in flight).  The POST handler of       *)
(* /api/generate and the score arithmetic have specifications of their own *)
(* (ServerSpec, ScoreSpec) over their own variables.                       *)
(***************************************************************************)
EXTENDS Integers, Sequences, FiniteSets, TLC

\* ---------------------------------------------------------------- bounds
MaxRounds == 3        \* restarts are capped: roundId never exceeds this
MaxHistory == 2       \* submissions are capped: history never grows past this
RandomSteps == 3      \* Math.random() takes the values k / RandomSteps

\* ------------------------------------------------------ program constants
GAME_DURATION == 60
SCORE_CANVAS_SIZE == 256

REFERENCE_IMAGES ==
  << [id |-> "city",     src |-> "/reference-images/city.jpg"],
     [id |-> "forest",   src |-> "/reference-images/forest.jpg"],
     [id |-> "mountain", src |-> "/reference-images/mountain.jpg"] >>

Null == "null"        \* null of a string-valued state cell
NullScore == 0 - 1    \* null of currentScore (number | null)

\* ------------------------------------------------------------ input sets
\* Texts typed in the textarea, as character sequences.
PromptInputs ==
  { << >>,
    <<" ", "a", "b", "c", " ">>,
    <<"a", "b", "c", "d">>,
    <<" ", "w", "x", "y", "z">> }

\* Data URIs the generation endpoint can answer with.
ImageInputs == { "data:image/jpeg;base64,X" }

\* Differing-pixel counts pixelmatch can report for 256x256 buffers: none,
\* seven eighths (similarity * 100 = 12.5, a rounding tie) and all.
TotalPixels == SCORE_CANVAS_SIZE * SCORE_CANVAS_SIZE
DiffPixelsInputs == { 0, 7 * (TotalPixels \div 8), TotalPixels }

\* Ways the generation half of handleGenerate throws.
GenerateErrors == { "Image generation failed", "No image returned" }
\* Ways calculateSimilarityScore throws: img.onerror rejects with an Event,
\* which is not an Error instance, or imageToImageData throws an Error.
DecodeErrors == { "Unexpected error occurred", "Canvas context missing" }

VARIABLES reference, status, timeRemaining, prompt, isGenerating,
          generatedImage, currentScore, bestScore, error, history, roundId,
          timerRef, pipelines,
          intervals,          \* live setInterval timers, by scheduling round
          srvPc, srvBody, srvSeed, srvUpstreamCalls, srvUpstream,
          srvResponse,
          scoreDiff, scoreResult

\* The POST handler's request in progress
serverVars ==
  << srvPc, srvBody, srvSeed, srvUpstreamCalls, srvUpstream, srvResponse >>

\* One evaluation of the score arithmetic
scoreVars == << scoreDiff, scoreResult >>

vars == << reference, status, timeRemaining, prompt, isGenerating,
           generatedImage, currentScore, bestScore, error, history, roundId,
           timerRef, pipelines, intervals, serverVars, scoreVars >>

\* The Home component's state
homeVars == << reference, status, timeRemaining, prompt, isGenerating,
               generatedImage, currentScore, bestScore, error, history,
               roundId, timerRef, pipelines, intervals >>

\* ------------------------------------------------------- pure functions
Max(a, b) == IF a >= b THEN a ELSE b

IsSpace(c) == c = " "

RECURSIVE TrimStart(_)
TrimStart(s) ==
  IF s # << >> /\ IsSpace(Head(s)) THEN TrimStart(Tail(s)) ELSE s

RECURSIVE TrimEnd(_)
TrimEnd(s) ==
  IF s # << >> /\ IsSpace(s[Len(s)]) THEN TrimEnd(SubSeq(s, 1, Len(s) - 1))
  ELSE s

\* String.prototype.trim
Trim(s) == TrimEnd(TrimStart(s))

\* Array.prototype.filter with the predicate img.id !== currentId
RECURSIVE FilterNotId(_, _)
FilterNotId(imgs, currentId) ==
  IF imgs = << >> THEN << >>
  ELSE IF Head(imgs).id # currentId
       THEN << Head(imgs) >> \o FilterNotId(Tail(imgs), currentId)
       ELSE FilterNotId(Tail(imgs), currentId)

\* Variant: the pool is never filtered.
getRandomReference_noExclude(currentId, rnd) ==
  REFERENCE_IMAGES[((rnd * Len(REFERENCE_IMAGES)) \div RandomSteps) + 1]

\* getRandomReference(currentId) with Math.random() = rnd / RandomSteps;
\* currentId = Null stands for the call without an argument.
getRandomReference(currentId, rnd) ==
  LET pool == IF currentId # Null
              THEN FilterNotId(REFERENCE_IMAGES, currentId)
              ELSE REFERENCE_IMAGES
  IN pool[((rnd * Len(pool)) \div RandomSteps) + 1]

\* Math.round of the non-negative rational n / d (round half up)
RoundDiv(n, d) == (2 * n + d) \div (2 * d)

\* Variant: the percentage of differing pixels is returned.
SimilarityScore_inverted(diffPixels) ==
  Max(0, RoundDiv(100 * diffPixels, TotalPixels))

\* The arithmetic of calculateSimilarityScore after pixelmatch returned
\* diffPixels: max(0, round((1 - diffPixels / totalPixels) * 100))
SimilarityScore(diffPixels) ==
  Max(0, RoundDiv(100 * (TotalPixels - diffPixels), TotalPixels))

\* seq without its i-th element
RemoveAt(seq, i) == SubSeq(seq, 1, i - 1) \o SubSeq(seq, i + 1, Len(seq))

\* Variant: three trimmed characters are enough for the button.
canSubmit_offByOne ==
  status = "playing" /\ ~isGenerating /\ Len(Trim(prompt)) > 2

\* Variant: the button stays enabled while a call is in flight.
canSubmit_ignoresGenerating ==
  status = "playing" /\ Len(Trim(prompt)) > 3

\* Variant: the length test is made on the untrimmed text.
canSubmit_rawLength ==
  status = "playing" /\ ~isGenerating /\ Len(prompt) > 3

\* canSubmit (useMemo): what enables the Generate button
canSubmit ==
  status = "playing" /\ ~isGenerating /\ Len(Trim(prompt)) > 3

\* Variant: the round expires one tick late.
TickExpires_late(prev) == prev <= 0

\* The test prev <= 1 of the updater passed to setTimeRemaining
TickExpires(prev) == prev <= 1

\* Variant: the countdown skips a second.
TickTime_skipsOne(prev) == IF TickExpires(prev) THEN 0 ELSE prev - 2

\* The updater passed to setTimeRemaining by the interval callback
TickTime(prev) == IF TickExpires(prev) THEN 0 ELSE prev - 1

\* Variant: the ref is dropped without the interval being cleared.
clearInterval_leaks(timers, ref) == timers

\* clearInterval(timerRef.current) on the browser's live intervals
clearInterval(timers, ref) == timers \ { ref }

\* Variant: the best score is overwritten by the latest score.
NextBestScore_last(prev, score) == score

\* The updater passed to setBestScore
NextBestScore(prev, score) == Max(prev, score)

\* Variant: the attempt is added at the end.
NextHistory_appends(prev, attempt) == Append(prev, attempt)

\* Variant: a result arriving after the round finished is dropped.
NextHistory_dropsAfterFinish(prev, attempt) ==
  IF status = "finished" THEN prev ELSE << attempt >> \o prev

\* The updater passed to setHistory
NextHistory(prev, attempt) == << attempt >> \o prev

\* -------------------------------------------- POST /api/generate: values
SEED_RANGE == 10000000

\* JavaScript values a request body can carry in its prompt field
Undefined == [type |-> "undefined", str |-> << >>, num |-> 0]
NumberValue(n) == [type |-> "number", str |-> << >>, num |-> n]
StringValue(chars) == [type |-> "string", str |-> chars, num |-> 0]

\* !value
Falsy(value) ==
  \/ value.type = "undefined"
  \/ (value.type = "number" /\ value.num = 0)
  \/ (value.type = "string" /\ value.str = << >>)

\* Request bodies: text that is not JSON, the JSON value null, and JSON
\* objects whose prompt is absent, a number or a string.
NoBody == [kind |-> "none", prompt |-> Undefined]
RequestBodies ==
  { [kind |-> "invalid", prompt |-> Undefined],
    [kind |-> "null", prompt |-> Undefined] }
  \cup { [kind |-> "object", prompt |-> value] :
           value \in { Undefined, NumberValue(0), NumberValue(42),
                       StringValue(<<" ", " ", " ", " ", " ">>) }
                     \cup { StringValue(chars) : chars \in PromptInputs } }

\* What the provider call can do: reject, or resolve with a status, a
\* content-type header (Null when absent) and a body that can be read or not.
NoUpstream == [kind |-> "none", ok |-> FALSE, contentType |-> Null,
               readable |-> FALSE]
UpstreamOutcomes ==
  { [kind |-> "rejects", ok |-> FALSE, contentType |-> Null,
     readable |-> FALSE] }
  \cup { [kind |-> "response", ok |-> ok, contentType |-> contentType,
          readable |-> readable] :
           ok \in BOOLEAN, contentType \in { Null, "image/png" },
           readable \in BOOLEAN }

NoResponse == [status |-> 0, error |-> Null, imageBase64 |-> << >>,
               seed |-> NullScore]
ErrorResponse(code, message) ==
  [status |-> code, error |-> message, imageBase64 |-> << >>,
   seed |-> NullScore]

\* Variant: the length test lets three-character prompts through.
RejectsPrompt_offByOne(value) ==
  Falsy(value) \/ value.type # "string" \/ Len(Trim(value.str)) < 3

\* !prompt || typeof prompt !== "string" || prompt.trim().length < 4
RejectsPrompt(value) ==
  Falsy(value) \/ value.type # "string" \/ Len(Trim(value.str)) < 4

\* --------------------------------------------------------------- Init
\* State of the first render: useState initialisers, timerRef = null, no
\* interval scheduled, no call of handleGenerate in flight; the POST handler
\* has no request and the score arithmetic has not been evaluated.
Init ==
  /\ \E rnd \in 0..(RandomSteps - 1) :
        reference = getRandomReference(Null, rnd)
  /\ status = "idle"
  /\ timeRemaining = GAME_DURATION
  /\ prompt = << >>
  /\ isGenerating = FALSE
  /\ generatedImage = Null
  /\ currentScore = NullScore
  /\ bestScore = 0
  /\ error = Null
  /\ history = << >>
  /\ roundId = 0
  /\ timerRef = 0
  /\ pipelines = << >>
  /\ intervals = { }
  /\ srvPc = "idle"
  /\ srvBody = NoBody
  /\ srvSeed = NullScore
  /\ srvUpstreamCalls = 0
  /\ srvUpstream = NoUpstream
  /\ srvResponse = NoResponse
  /\ scoreDiff = NullScore
  /\ scoreResult = NullScore

\* ------------------------------------------------------------- actions
\* startRound, followed by the timer effect that its roundId/status change
\* re-runs: startRound clears the interval timerRef holds, the effect's
\* cleanup finds timerRef null, and the effect schedules a new interval,
\* identified by the round that scheduled it (timerRef 0 = null).
startRound ==
  /\ roundId' = roundId + 1
  /\ status' = "playing"
  /\ timeRemaining' = GAME_DURATION
  /\ prompt' = << >>
  /\ generatedImage' = Null
  /\ currentScore' = NullScore
  /\ error' = Null
  /\ history' = << >>
  /\ timerRef' = roundId + 1
  /\ intervals' = clearInterval(intervals, timerRef) \cup { roundId + 1 }

\* Variant: the first start draws a reference again.
Mount_picksReference ==
  /\ roundId = 0
  /\ \E rnd \in 0..(RandomSteps - 1) :
        reference' = getRandomReference(Null, rnd)
  /\ startRound
  /\ UNCHANGED << bestScore, isGenerating, pipelines,
                  serverVars, scoreVars >>

\* The mount effect: useEffect(() => { startRound(); }, [startRound])
Mount ==
  /\ roundId = 0
  /\ startRound
  /\ UNCHANGED << reference, bestScore, isGenerating, pipelines,
                  serverVars, scoreVars >>

\* The "New Image" button
handleRestart ==
  /\ roundId > 0
  /\ roundId < MaxRounds
  /\ \E rnd \in 0..(RandomSteps - 1) :
        reference' = getRandomReference(reference.id, rnd)
  /\ bestScore' = 0
  /\ startRound
  /\ UNCHANGED << isGenerating, pipelines, serverVars, scoreVars >>

\* Variant: the callback does nothing while a call is in flight.
Tick_waitsForPipeline(k) ==
  /\ k \in intervals
  /\ ~isGenerating
  /\ timeRemaining' = TickTime(timeRemaining)
  /\ IF TickExpires(timeRemaining)
     THEN /\ intervals' = clearInterval(intervals, timerRef)
          /\ timerRef' = 0
          /\ status' = "finished"
     ELSE UNCHANGED << intervals, timerRef, status >>
  /\ UNCHANGED << reference, prompt, isGenerating, generatedImage,
                  currentScore, bestScore, error, history, roundId,
                  pipelines, serverVars, scoreVars >>

\* One firing of the callback of live interval k; when it sets status to
\* finished it clears the interval timerRef holds, and the effect's cleanup
\* that follows finds timerRef null.
Tick(k) ==
  /\ k \in intervals
  /\ timeRemaining' = TickTime(timeRemaining)
  /\ IF TickExpires(timeRemaining)
     THEN /\ intervals' = clearInterval(intervals, timerRef)
          /\ timerRef' = 0
          /\ status' = "finished"
     ELSE UNCHANGED << intervals, timerRef, status >>
  /\ UNCHANGED << reference, prompt, isGenerating, generatedImage,
                  currentScore, bestScore, error, history, roundId,
                  pipelines, serverVars, scoreVars >>

\* The textarea's onChange; it is disabled unless playing and not generating.
setPrompt(text) ==
  /\ ~(status # "playing" \/ isGenerating)
  /\ prompt' = text
  /\ UNCHANGED << reference, status, timeRemaining, isGenerating,
                  generatedImage, currentScore, bestScore, error, history,
                  roundId, timerRef, pipelines, intervals,
                  serverVars, scoreVars >>

\* handleGenerate up to its first await: the early return, then
\* setIsGenerating(true), setError(null) and the fetch being issued with the
\* prompt and reference.src of the closure.
handleGenerate ==
  IF Trim(prompt) = << >> \/ status # "playing"
  THEN UNCHANGED vars
  ELSE /\ isGenerating' = TRUE
       /\ error' = Null
       /\ pipelines' = Append(pipelines,
                              [stage |-> "fetching", prompt |-> prompt,
                               referenceSrc |-> reference.src,
                               image |-> Null])
       /\ UNCHANGED << reference, status, timeRemaining, prompt,
                       generatedImage, currentScore, bestScore, history,
                       roundId, timerRef, intervals,
                  serverVars, scoreVars >>

\* A click on the Generate button (disabled = !canSubmit).
submitPrompt ==
  /\ canSubmit
  /\ Len(history) + Len(pipelines) < MaxHistory
  /\ handleGenerate

\* fetch / response.json of call i resolved with an image:
\* setGeneratedImage, then the similarity computation is awaited.
GenerateSucceeds(i, image) ==
  /\ pipelines[i].stage = "fetching"
  /\ generatedImage' = image
  /\ pipelines' = [pipelines EXCEPT ![i].stage = "scoring",
                                    ![i].image = image]
  /\ UNCHANGED << reference, status, timeRemaining, prompt, isGenerating,
                  currentScore, bestScore, error, history, roundId, timerRef, intervals,
                  serverVars, scoreVars >>

\* Variant: the catch block does not set the error message.
PipelineFails_swallows(i, message) ==
  /\ isGenerating' = FALSE
  /\ pipelines' = RemoveAt(pipelines, i)
  /\ UNCHANGED << reference, status, timeRemaining, prompt, generatedImage,
                  currentScore, bestScore, error, history, roundId, timerRef, intervals,
                  serverVars, scoreVars >>

\* Variant: no finally block, the flag is cleared on success only.
PipelineFails_noFinally(i, message) ==
  /\ error' = message
  /\ pipelines' = RemoveAt(pipelines, i)
  /\ UNCHANGED << reference, status, timeRemaining, prompt, isGenerating,
                  generatedImage, currentScore, bestScore, history, roundId,
                  timerRef, intervals,
                  serverVars, scoreVars >>

\* Variant: a failure sends the round back to idle.
PipelineFails_resetsStatus(i, message) ==
  /\ error' = message
  /\ isGenerating' = FALSE
  /\ status' = "idle"
  /\ pipelines' = RemoveAt(pipelines, i)
  /\ UNCHANGED << reference, timeRemaining, prompt, generatedImage,
                  currentScore, bestScore, history, roundId, timerRef,
                  intervals, serverVars, scoreVars >>

\* catch + finally of call i
PipelineFails(i, message) ==
  /\ error' = message
  /\ isGenerating' = FALSE
  /\ pipelines' = RemoveAt(pipelines, i)
  /\ UNCHANGED << reference, status, timeRemaining, prompt, generatedImage,
                  currentScore, bestScore, history, roundId, timerRef, intervals,
                  serverVars, scoreVars >>

\* !response.ok or no imageBase64
GenerateFails(i, message) ==
  /\ pipelines[i].stage = "fetching"
  /\ PipelineFails(i, message)

\* calculateSimilarityScore rejected (an image failed to decode)
ScoreFails(i, message) ==
  /\ pipelines[i].stage = "scoring"
  /\ PipelineFails(i, message)

\* calculateSimilarityScore of call i resolved: setCurrentScore,
\* setBestScore, setHistory, then finally setIsGenerating(false)
ScoreSucceeds(i, diffPixels) ==
  /\ pipelines[i].stage = "scoring"
  /\ LET score == SimilarityScore(diffPixels) IN
       /\ currentScore' = score
       /\ bestScore' = NextBestScore(bestScore, score)
       /\ history' = NextHistory(history,
                                 [prompt |-> pipelines[i].prompt,
                                  image |-> pipelines[i].image,
                                  score |-> score])
  /\ isGenerating' = FALSE
  /\ pipelines' = RemoveAt(pipelines, i)
  /\ UNCHANGED << reference, status, timeRemaining, prompt, generatedImage,
                  error, roundId, timerRef, intervals,
                  serverVars, scoreVars >>

\* The browser runs the callback of a live interval.
TimerFires == \E k \in intervals : Tick(k)

GenerateResolves ==
  \E i \in DOMAIN pipelines :
     \/ \E image \in ImageInputs : GenerateSucceeds(i, image)
     \/ \E message \in GenerateErrors : GenerateFails(i, message)

ScoreResolves ==
  \E i \in DOMAIN pipelines :
     \/ \E diffPixels \in DiffPixelsInputs : ScoreSucceeds(i, diffPixels)
     \/ \E message \in DecodeErrors : ScoreFails(i, message)

Next ==
  \/ Mount
  \/ handleRestart
  \/ TimerFires
  \/ \E text \in PromptInputs : setPrompt(text)
  \/ submitPrompt
  \/ GenerateResolves
  \/ ScoreResolves

Spec == Init /\ [][Next]_vars

\* The generation call and the image decodes each eventually settle.
FairSpec == Spec /\ WF_vars(GenerateResolves) /\ WF_vars(ScoreResolves)

\* ------------------------------------------- POST /api/generate: actions
\* A request arrives at the handler (the previous one, if any, is answered).
ReceiveRequest(body) ==
  /\ srvPc \in { "idle", "done" }
  /\ srvPc' = "received"
  /\ srvBody' = body
  /\ srvSeed' = NullScore
  /\ srvUpstreamCalls' = 0
  /\ srvUpstream' = NoUpstream
  /\ srvResponse' = NoResponse
  /\ UNCHANGED << homeVars, scoreVars >>

\* The handler's return of a response
Respond(response) ==
  /\ srvPc' = "done"
  /\ srvResponse' = response

\* await request.json() and the destructuring (both throw into the catch),
\* the validation, then the seed and the provider call being issued.
POSTValidate ==
  /\ srvPc = "received"
  /\ IF srvBody.kind # "object"
     THEN /\ Respond(ErrorResponse(500,
                  "Unexpected server error while generating image."))
          /\ UNCHANGED << srvSeed, srvUpstreamCalls >>
     ELSE IF RejectsPrompt(srvBody.prompt)
     THEN /\ Respond(ErrorResponse(400,
                  "A longer prompt is required for generation."))
          /\ UNCHANGED << srvSeed, srvUpstreamCalls >>
     ELSE /\ \E rnd \in 0..(RandomSteps - 1) :
                srvSeed' = (rnd * SEED_RANGE) \div RandomSteps
          /\ srvUpstreamCalls' = srvUpstreamCalls + 1
          /\ srvPc' = "upstream"
          /\ UNCHANGED srvResponse
  /\ UNCHANGED << srvBody, srvUpstream, homeVars, scoreVars >>

\* await fetch(pollinationsUrl) settles: a rejection goes to the catch, a
\* non-ok response is answered with 502, an ok one has its body read next.
UpstreamSettles(outcome) ==
  /\ srvPc = "upstream"
  /\ srvUpstream' = outcome
  /\ IF outcome.kind = "rejects"
     THEN Respond(ErrorResponse(500,
                  "Unexpected server error while generating image."))
     ELSE IF ~outcome.ok
     THEN Respond(ErrorResponse(502,
                  "Failed to generate image from AI provider."))
     ELSE /\ srvPc' = "reading"
          /\ UNCHANGED srvResponse
  /\ UNCHANGED << srvBody, srvSeed, srvUpstreamCalls, homeVars, scoreVars >>

\* await response.arrayBuffer() settles, then the data URI is built with the
\* provider's content type (image/jpeg when the header is absent).
ReadBody ==
  /\ srvPc = "reading"
  /\ IF ~srvUpstream.readable
     THEN Respond(ErrorResponse(500,
                  "Unexpected server error while generating image."))
     ELSE Respond([status |-> 200, error |-> Null,
                   imageBase64 |->
                     << "data:",
                        IF srvUpstream.contentType = Null
                        THEN "image/jpeg" ELSE srvUpstream.contentType,
                        ";base64," >>,
                   seed |-> srvSeed])
  /\ UNCHANGED << srvBody, srvSeed, srvUpstreamCalls, srvUpstream,
                  homeVars, scoreVars >>

ServerNext ==
  \/ \E body \in RequestBodies : ReceiveRequest(body)
  \/ POSTValidate
  \/ \E outcome \in UpstreamOutcomes : UpstreamSettles(outcome)
  \/ ReadBody

\* The POST handler serving one request after another
ServerSpec == Init /\ [][ServerNext]_vars

\* ------------------------------------------------ score arithmetic: actions
\* calculateSimilarityScore once pixelmatch has returned diffPixels, for
\* every count pixelmatch can return on two 256x256 buffers.
ComputeScore ==
  /\ scoreDiff = NullScore
  /\ \E diffPixels \in 0..TotalPixels :
        /\ scoreDiff' = diffPixels
        /\ scoreResult' = SimilarityScore(diffPixels)
  /\ UNCHANGED << homeVars, serverVars >>

ScoreNext == ComputeScore

ScoreSpec == Init /\ [][ScoreNext]_vars

\* ------------------------------------------------------------ properties
\* A step that is a start or restart
IsStart == roundId' # roundId
\* A step in which a call of handleGenerate is started / ends
PipelineStarts == Len(pipelines') > Len(pipelines)
PipelineEnds == Len(pipelines') < Len(pipelines)
\* The Attempt call i records when it resolves with the score shown next
AttemptOf(i) ==
  [prompt |-> pipelines[i].prompt, image |-> pipelines[i].image,
   score |-> currentScore']

RECURSIVE MaxScore(_)
MaxScore(attempts) ==
  IF attempts = << >> THEN 0
  ELSE Max(Head(attempts).score, MaxScore(Tail(attempts)))

\* C1: in every reachable state at most one generate+score pipeline is in
\* flight, and while one is in flight isGenerating is set, so that a further
\* submitPrompt is rejected, also after a restart with a pipeline pending.
C1_AtMostOnePipeline ==
  /\ Len(pipelines) <= 1
  /\ Len(pipelines) = 1 => (isGenerating /\ ~canSubmit)

\* C1 witness: a restart happened while a pipeline was pending, and the
\* pipeline of the previous round is still the only one in flight.
C1_Witness ==
  /\ roundId > 1
  /\ Len(pipelines) = 1
  /\ pipelines[1].referenceSrc # reference.src

\* C2: a pipeline (network call) is started only by a step taken with
\* status = playing, isGenerating false and trimmed prompt length >= 4; a
\* step taken in any other state starts none, and a step that starts none
\* leaves isGenerating and error as they were unless it ends a pipeline or
\* starts a round.
C2_SubmitGuard ==
  [][ /\ PipelineStarts =>
           /\ status = "playing"
           /\ ~isGenerating
           /\ Len(Trim(prompt)) >= 4
           /\ Len(pipelines') = Len(pipelines) + 1
           /\ pipelines'[Len(pipelines')].prompt = prompt
      /\ (~PipelineStarts /\ ~PipelineEnds /\ ~IsStart) =>
           (isGenerating' = isGenerating /\ error' = error)
    ]_vars

\* C2 witness: a playing round with no pipeline pending whose prompt is
\* longer than 3 characters but trims to 3, where a submission is rejected.
C2_Witness ==
  /\ status = "playing"
  /\ ~isGenerating
  /\ pipelines = << >>
  /\ Len(prompt) > 3
  /\ Len(Trim(prompt)) <= 3
  /\ ~canSubmit

\* C3: a tick of a playing round decreases timeRemaining by exactly 1; the
\* tick reaching 0 sets status to finished and leaves no timer; outside
\* playing no step but a start changes timeRemaining or status; and
\* timeRemaining increases only by a start or restart.
C3_TickCountsDown ==
  [][ /\ TimerFires =>
           /\ status = "playing"
           /\ timeRemaining > 0
           /\ timeRemaining' = timeRemaining - 1
           /\ (timeRemaining' = 0 => (status' = "finished" /\ timerRef' = 0))
           /\ (timeRemaining' > 0 => (status' = "playing" /\ timerRef' # 0))
      /\ (status # "playing" /\ ~IsStart) =>
           (timeRemaining' = timeRemaining /\ status' = status)
      /\ (timeRemaining' # timeRemaining /\ ~IsStart) =>
           timeRemaining' = timeRemaining - 1
      /\ (timeRemaining' > timeRemaining) => IsStart
    ]_vars

\* C3 witness: a round counted down to 0 and finished, with the timer stopped.
C3_Witness ==
  /\ status = "finished"
  /\ timeRemaining = 0
  /\ timerRef = 0

\* C4: the tick that reaches 0 while a pipeline is pending finishes the
\* round in that step and leaves the pipeline in flight; in a finished round
\* no pipeline is started; and a pipeline that resolves successfully in a
\* finished round still prepends its Attempt and updates bestScore.
C4_ExpiryWhilePending ==
  [][ /\ (TimerFires /\ timeRemaining <= 1 /\ pipelines # << >>) =>
           (status' = "finished" /\ pipelines' = pipelines /\ isGenerating')
      /\ (status = "finished" /\ ~IsStart) => ~PipelineStarts
      /\ (status = "finished" /\ PipelineEnds /\ error' = Null) =>
           /\ history' = << AttemptOf(1) >> \o history
           /\ bestScore' = Max(bestScore, currentScore')
           /\ status' = "finished"
    ]_vars

\* C4 witness: the round has finished while its pipeline is still in flight.
C4_Witness ==
  /\ status = "finished"
  /\ timeRemaining = 0
  /\ isGenerating
  /\ Len(pipelines) = 1
  /\ pipelines[1].referenceSrc = reference.src

\* C5 (as claimed): right after every start or restart timeRemaining = 60,
\* history is empty, bestScore = 0, status = playing and isGenerating = false.
C5_StartResetsAll ==
  [][ IsStart =>
        /\ timeRemaining' = GAME_DURATION
        /\ history' = << >>
        /\ bestScore' = 0
        /\ status' = "playing"
        /\ isGenerating' = FALSE
    ]_vars

\* C6: bestScore is max(0, the maximum score in history), is 0 when history
\* is empty, and lies in 0..100.
C6_BestScoreIsMax ==
  /\ bestScore = MaxScore(history)
  /\ history = << >> => bestScore = 0
  /\ bestScore \in 0..100
  /\ \A k \in DOMAIN history : history[k].score \in 0..100

\* C6 witness: two attempts, the later one scoring lower than the earlier.
C6_Witness ==
  /\ Len(history) = 2
  /\ history[1].score < history[2].score

\* C7: within a round history changes only by a resolving pipeline putting
\* its Attempt (submitted prompt, generated image, score) in front of the
\* unchanged previous sequence.
C7_PrependOnly ==
  [][ ~IsStart =>
        \/ history' = history
        \/ /\ PipelineEnds
           /\ \E i \in DOMAIN pipelines :
                 /\ pipelines[i].stage = "scoring"
                 /\ history' = << AttemptOf(i) >> \o history
    ]_vars

\* C7 witness: two attempts with different prompts and scores are recorded.
C7_Witness ==
  /\ Len(history) = 2
  /\ history[1].prompt # history[2].prompt
  /\ history[1].score # history[2].score

\* C8: a pipeline that ends without recording an Attempt sets an error
\* message, leaves history, bestScore and status unchanged and clears
\* isGenerating; if the round is playing with a valid prompt the Generate
\* button is enabled again.
C8_FailureLeavesRound ==
  [][ /\ PipelineEnds => (error' # Null \/ Len(history') = Len(history) + 1)
      /\ (PipelineEnds /\ Len(history') # Len(history) + 1) =>
           /\ error' # Null
           /\ error' \in GenerateErrors \cup DecodeErrors
           /\ history' = history
           /\ bestScore' = bestScore
           /\ status' = status
           /\ ~isGenerating'
           /\ (status' = "playing" /\ Len(Trim(prompt')) > 3) => canSubmit'
    ]_vars

\* C8 witness: after a recorded attempt a later pipeline failed; the round is
\* playing, the error is shown, and the prompt can be submitted again.
C8_Witness ==
  /\ error # Null
  /\ ~isGenerating
  /\ pipelines = << >>
  /\ status = "playing"
  /\ Len(history) = 1
  /\ canSubmit

\* C9: whenever isGenerating is true it is eventually false, given that the
\* generation call and the image decodes eventually settle.
C9_FlagEventuallyCleared == isGenerating ~> ~isGenerating

\* C9 witness: a pipeline ended in the decode failure and the flag is clear.
C9_Witness ==
  /\ error = "Unexpected error occurred"
  /\ generatedImage # Null
  /\ ~isGenerating

\* C10: every restart yields a reference whose id differs from the id of the
\* reference in place before it.
C10_RestartChangesReference ==
  [][ (IsStart /\ roundId > 0) => reference'.id # reference.id ]_vars

\* C10 witness: two consecutive restarts ended on the first round's reference.
C10_Witness ==
  /\ roundId = MaxRounds
  /\ timeRemaining = GAME_DURATION
  /\ reference.id = "city"

\* C11: reference changes only in a restart step (a start after the mount);
\* ticks, submissions, pipeline results and the timer expiring leave it.
C11_ReferenceOnlyOnRestart ==
  [][ (reference' # reference) => (IsStart /\ roundId > 0) ]_vars

\* C11 witness: the first round has finished with an attempt recorded and a
\* failure shown, on the reference drawn at construction.
C11_Witness ==
  /\ roundId = 1
  /\ status = "finished"
  /\ Len(history) = 1
  /\ error \in GenerateErrors

\* C12: status changes only idle -> playing by the start, playing ->
\* finished by the tick reaching 0, and finished -> playing by a restart;
\* every start ends in playing, idle is never re-entered, and no step that
\* starts or ends a pipeline changes status.
C12_StatusTransitions ==
  [][ /\ (status' # status) =>
           \/ (status = "idle" /\ status' = "playing" /\ IsStart)
           \/ (status = "playing" /\ status' = "finished" /\ ~IsStart
                 /\ timeRemaining = 1 /\ timeRemaining' = 0)
           \/ (status = "finished" /\ status' = "playing" /\ IsStart)
      /\ IsStart => status' = "playing"
      /\ (status # "idle") => (status' # "idle")
      /\ (PipelineStarts \/ PipelineEnds) => status' = status
    ]_vars

\* C12 witness: the last round allowed has finished, after restarts.
C12_Witness ==
  /\ roundId = MaxRounds
  /\ status = "finished"
  /\ pipelines = << >>

\* C13: whenever status is playing a tick is enabled, with or without a
\* pipeline in flight, and a tick taken with a pipeline in flight counts
\* down by 1 (finishing the round at 0) and leaves the pipeline untouched.
C13_TimerIndependent ==
  [][ /\ (status = "playing") =>
           (timeRemaining \in 1..GAME_DURATION /\ ENABLED TimerFires)
      /\ (status' = "playing") => (intervals' # { })
      /\ (TimerFires /\ isGenerating) =>
           /\ timeRemaining' = timeRemaining - 1
           /\ status' = IF timeRemaining' = 0 THEN "finished" ELSE "playing"
           /\ pipelines' = pipelines
           /\ isGenerating'
    ]_vars

\* C13 witness: the first round counted down to 0 and finished while its
\* generation call never resolved.
C13_Witness ==
  /\ roundId = 1
  /\ status = "finished"
  /\ timeRemaining = 0
  /\ Len(pipelines) = 1
  /\ pipelines[1].stage = "fetching"

\* A prompt that is missing, not a string, or of trimmed length < 4
PromptInvalid(value) ==
  \/ value.type = "undefined"
  \/ value.type # "string"
  \/ Len(Trim(value.str)) < 4

\* C14: the provider is called at most once per request; no answer is
\* given before the handler is done and exactly one of 200, 400, 500, 502
\* then; an object body with an invalid prompt gets 400 with no provider
\* call; a valid prompt gets exactly one provider call and 502 on a non-ok
\* response, 200 with data URI and seed on an ok readable one, 500 when the
\* call or the read throws; a body that cannot be read as an object gets
\* 500 with no provider call.
C14_PostOutcomes ==
  /\ srvUpstreamCalls \in 0..1
  /\ (srvPc # "done") <=> (srvResponse = NoResponse)
  /\ (srvPc = "done") =>
       /\ srvResponse.status \in { 200, 400, 500, 502 }
       /\ (srvBody.kind # "object") =>
            (srvResponse.status = 500 /\ srvUpstreamCalls = 0)
       /\ (srvBody.kind = "object" /\ PromptInvalid(srvBody.prompt)) =>
            (srvResponse.status = 400 /\ srvUpstreamCalls = 0)
       /\ (srvBody.kind = "object" /\ ~PromptInvalid(srvBody.prompt)) =>
            /\ srvUpstreamCalls = 1
            /\ srvUpstream.kind # "none"
            /\ (srvResponse.status = 502) <=>
                 (srvUpstream.kind = "response" /\ ~srvUpstream.ok)
            /\ (srvResponse.status = 200) <=>
                 (srvUpstream.kind = "response" /\ srvUpstream.ok
                    /\ srvUpstream.readable)
            /\ (srvResponse.status = 500) <=>
                 (srvUpstream.kind = "rejects"
                    \/ (srvUpstream.ok /\ ~srvUpstream.readable))
            /\ (srvResponse.status = 200) =>
                 /\ srvResponse.imageBase64 # << >>
                 /\ srvResponse.seed = srvSeed
                 /\ srvResponse.seed \in 0..(SEED_RANGE - 1)

\* C14 witness: a prompt that trims to exactly 4 characters was answered 200
\* after one provider call whose response had no content-type header.
C14_Witness ==
  /\ srvPc = "done"
  /\ srvResponse.status = 200
  /\ srvUpstreamCalls = 1
  /\ Len(srvBody.prompt.str) = 5
  /\ srvResponse.imageBase64[2] = "image/jpeg"

\* C15: for every differing-pixel count D in 0..T the score is an integer
\* in 0..100, is 100 at D = 0 and 0 at D = T, is not below the score of
\* D + 1, and is the nearest integer (half up) to 100 * (1 - D / T).
C15_ScoreRange ==
  (scoreDiff # NullScore) =>
     /\ scoreDiff \in 0..TotalPixels
     /\ scoreResult \in 0..100
     /\ (scoreDiff = 0) => (scoreResult = 100)
     /\ (scoreDiff = TotalPixels) => (scoreResult = 0)
     /\ (scoreDiff < TotalPixels) =>
          (SimilarityScore(scoreDiff + 1) <= scoreResult)
     /\ 2 * 100 * (TotalPixels - scoreDiff)
          >= (2 * scoreResult - 1) * TotalPixels
     /\ 2 * 100 * (TotalPixels - scoreDiff)
          < (2 * scoreResult + 1) * TotalPixels

\* C15 witness: one differing pixel still scores 100, so the score is not
\* strictly decreasing; the evaluation has been made.
C15_Witness ==
  /\ scoreDiff = 1
  /\ scoreResult = 100

\* C17: at most one interval is live at any time, it is the one timerRef
\* holds and it was scheduled by the current round; none is live once the
\* round is not playing, and a playing round has exactly its own; so every
\* tick, the first after a restart included, comes from the current round's
\* interval.
C17_SingleTicker ==
  /\ Cardinality(intervals) <= 1
  /\ intervals \subseteq { roundId }
  /\ intervals = IF timerRef = 0 THEN { } ELSE { timerRef }
  /\ (status # "playing") => (intervals = { })
  /\ (status = "playing" /\ roundId > 0) => (intervals = { roundId })

\* C17 witness: a restart was made during a playing round and the new round
\* has made its first decrement.
C17_Witness ==
  /\ roundId = 2
  /\ status = "playing"
  /\ timeRemaining = GAME_DURATION - 1
  /\ intervals = { 2 }

\* C18 (as claimed): a pipeline adds its Attempt to history and raises
\* bestScore only if it was started against the current reference, so a
\* pipeline started before a restart leaves the new round's history and
\* bestScore alone when it resolves.
C18_AttemptsOfCurrentRound ==
  [][ \A i \in DOMAIN pipelines :
        (pipelines[i].referenceSrc # reference.src /\ ~IsStart) =>
           (history' = history /\ bestScore' = bestScore)
    ]_vars

\* C19: timeRemaining is in 0..60, and status is finished exactly when
\* timeRemaining is 0.
C19_TimerMatchesStatus ==
  /\ timeRemaining \in 0..GAME_DURATION
  /\ (status = "finished") <=> (timeRemaining = 0)

\* C19 witness: a round restarted from finished is halfway through its count.
C19_Witness ==
  /\ roundId = 2
  /\ status = "playing"
  /\ timeRemaining = 30
  /\ isGenerating

\* C20: every prompt sent to POST /api/generate passes the handler's
\* validation, and no step starts a pipeline in a state whose prompt the
\* handler would answer with 400.
C20_ValidationAgrees ==
  [][ /\ \A i \in DOMAIN pipelines' :
           ~RejectsPrompt(StringValue(pipelines'[i].prompt))
      /\ RejectsPrompt(StringValue(prompt)) => ~PipelineStarts
    ]_vars

\* C20 witness: the fetch is in flight for a prompt of 5 characters that
\* trims to exactly 4.
C20_Witness ==
  /\ Len(pipelines) = 1
  /\ pipelines[1].stage = "fetching"
  /\ Len(pipelines[1].prompt) = 5
  /\ Len(Trim(pipelines[1].prompt)) = 4
  /\ status = "playing"

====
